---- MODULE Spec2Model ----
(***************************************************************************)
(* Model of pgsm's conjugate multivariate-normal posterior                 *)
(* (src/pgsm/distributions/mvn.py) and of the split-merge setup kernels    *)
(* (src/pgsm/mcmc/split_merge_setup.py).                                   *)
(*                                                                         *)
(* Numbers.  The code works in floating point; the model works in exact    *)
(* integer arithmetic:                                                     *)
(*   - data points are integer vectors of dimension 2;                     *)
(*   - every quantity that the code divides by r = r0 + N (the mean u and  *)
(*     the scale matrix) is stored multiplied by Scale, a common multiple  *)
(*     of every r that can occur, so that it stays an integer;             *)
(*   - a Cholesky factor L is represented by the matrix L.L^T it factors   *)
(*     (times Scale), or by NaN when a downdate left the matrix not        *)
(*     positive definite;                                                  *)
(*   - a log-probability is represented by its exponential, a natural      *)
(*     number in units of 1/ExpZero (so 0 stands for -inf and ExpZero for  *)
(*     log-probability 0).                                                 *)
(* Indices of data points and cluster labels are 0-based, as in the code.  *)
(***************************************************************************)
EXTENDS Integers, Sequences, FiniteSets, TLC

VARIABLES
    mode,               \* which object the behaviour exercises: "posterior" or "kernel"
    \* ---- MultivariateNormalParameters under test (mvn.py) ----
    post,               \* the posterior object: [ss, nu, r, u, S_chol]
    members,            \* ghost: how many times each point is currently in post.ss
    hist,               \* ghost: the last two operations, newest first: [op, x, before]
    \* ---- SplitMergeSetupKernel (split_merge_setup.py) ----
    strategy,           \* the concrete kernel class
    data,               \* self.data, a function 0..n-1 -> point
    num_adaptation_iters, \* self.num_adaptation_iters (Inf for float('inf'))
    threshold,          \* self.threshold as <<numerator, denominator>>
    dist,               \* what the external observation model answers for this data
    iter,               \* self.iter
    max_clusters_seen,  \* self.max_clusters_seen
    has_store,          \* whether update() has ever run (the store attributes exist)
    cluster_params,     \* self.cluster_params: label -> posterior
    clusters_to_data,   \* self.clusters_to_data: label -> set of member indices
    data_to_clusters,   \* self.data_to_clusters: the per-anchor cache
    clustering,         \* self.clustering: the relabelled clustering of the last update
    cluster_probs,      \* self.cluster_probs: label -> row of weights (Cluster-Informed)
    call                \* ghost: arguments and outcome of the last call

pvars == <<post, members, hist>>
cfgvars == <<strategy, data, num_adaptation_iters, threshold, dist>>
kvars == <<iter, max_clusters_seen, has_store, cluster_params, clusters_to_data,
           data_to_clusters, clustering, cluster_probs, call>>
vars == <<mode, post, members, hist, strategy, data, num_adaptation_iters, threshold,
          dist, iter, max_clusters_seen, has_store, cluster_params, clusters_to_data,
          data_to_clusters, clustering, cluster_probs, call>>

(***************************************************************************)
(* Bounds of the model.                                                    *)
(***************************************************************************)
\* the most points a posterior of the posterior behaviours holds
MaxCount == 3
\* the most setup_split_merge calls of one behaviour
MaxIter == 2
\* the largest cluster label a caller passes
MaxLabel == 2
\* the largest finite adaptation budget
MaxBudget == 1
\* the largest num_anchors a caller asks for
MaxAnchors == 3

\* the points increment/decrement are called with in the posterior behaviours
Points == {<<0, 1>>, <<1, 0>>, <<1, 1>>, <<2, -1>>}
\* the datasets the kernels are built on are the non-empty prefixes of AllData
AllData == << <<0, 0>>, <<0, 1>>, <<3, 0>> >>

\* float('inf'), the default of num_adaptation_iters: a value no counter equals
Inf == 0 - 1
Min(a, b) == IF a <= b THEN a ELSE b
Max(a, b) == IF a >= b THEN a ELSE b

RECURSIVE Gcd(_, _)
Gcd(a, b) == IF b = 0 THEN a ELSE Gcd(b, a % b)
RECURSIVE LcmUpTo(_)
LcmUpTo(n) == IF n <= 1 THEN 1 ELSE LET l == LcmUpTo(n - 1) IN (l * n) \div Gcd(l, n)

(***************************************************************************)
(* Vectors and matrices of dimension 2.                                    *)
(***************************************************************************)
Idx == {1, 2}
ZeroVec == [i \in Idx |-> 0]
ZeroMat == [p \in Idx \X Idx |-> 0]
Eye == [p \in Idx \X Idx |-> IF p[1] = p[2] THEN 1 ELSE 0]
VecAdd(x, y) == [i \in Idx |-> x[i] + y[i]]
VecSub(x, y) == [i \in Idx |-> x[i] - y[i]]
MatAdd(a, b) == [p \in Idx \X Idx |-> a[p] + b[p]]
MatSub(a, b) == [p \in Idx \X Idx |-> a[p] - b[p]]
MatScale(k, a) == [p \in Idx \X Idx |-> k * a[p]]
outer_product(x, y) == [p \in Idx \X Idx |-> x[p[1]] * y[p[2]]]
\* a symmetric 2x2 matrix is positive definite iff its leading minors are positive
IsPD(a) == a[<<1, 1>>] > 0 /\ a[<<1, 1>>] * a[<<2, 2>>] - a[<<1, 2>>] * a[<<2, 1>>] > 0

(***************************************************************************)
(* mvn.py                                                                  *)
(***************************************************************************)
\* MultivariateNormalPriors(dim = 2)
priors == [dim |-> 2, nu |-> 2 + 2, r |-> 1, S |-> Eye, u |-> ZeroVec]

\* every r = priors.r + N that occurs divides Scale
Scale == LcmUpTo(priors.r + Max(MaxCount, Len(AllData)))

RECURSIVE SumVec(_)
SumVec(X) == IF X = <<>> THEN ZeroVec ELSE VecAdd(SumVec(Tail(X)), Head(X))
RECURSIVE SumOuter(_)
SumOuter(X) == IF X = <<>> THEN ZeroMat
               ELSE MatAdd(SumOuter(Tail(X)), outer_product(Head(X), Head(X)))

\* MultivariateNormalSufficientStatistics.__init__ on a batch (a sequence of points)
SufficientStatistics(X) == [N |-> Len(X), X |-> SumVec(X), S |-> SumOuter(X)]

ss_decrement(ss, x) ==
    [N |-> ss.N - 1, X |-> VecSub(ss.X, x), S |-> MatSub(ss.S, outer_product(x, x))]

ss_increment(ss, x) ==
    [N |-> ss.N + 1, X |-> VecAdd(ss.X, x), S |-> MatAdd(ss.S, outer_product(x, x))]

update_nu(ss) == priors.nu + ss.N
update_r(ss) == priors.r + ss.N
\* u, times Scale
update_u(ss, r) == [i \in Idx |-> ((priors.r * priors.u[i] + ss.X[i]) * Scale) \div r]

\* v.v^T, times Scale, for the vector v = sqrt(r) * u that increment/decrement pass
MeanTerm(r, u) == [p \in Idx \X Idx |-> (r * u[p[1]] * u[p[2]]) \div Scale]
\* x.x^T, times Scale, for a data point x
PointTerm(x) == MatScale(Scale, outer_product(x, x))

NaN == [ok |-> FALSE, m |-> ZeroMat]

\* math_utils.cholesky_update(L, v, sign): the factor of L.L^T + sign * v.v^T; vv is
\* v.v^T.  A downdate that leaves the matrix not positive definite takes the square
\* root of a negative number: the factor is NaN from then on.
cholesky_update(L, vv, sign) ==
    IF ~L.ok THEN NaN
    ELSE LET m == MatAdd(L.m, MatScale(sign, vv))
         IN IF IsPD(m) THEN [ok |-> TRUE, m |-> m] ELSE NaN

\* MultivariateNormalParameters._update_S_chol: the direct factorisation
update_S_chol(ss, r, u) ==
    LET S == MatSub(
                 MatAdd(MatScale(Scale, MatAdd(priors.S, ss.S)),
                        MatScale(Scale * priors.r, outer_product(priors.u, priors.u))),
                 MeanTerm(r, u))
    IN [ok |-> TRUE, m |-> S]

\* MultivariateNormalParameters.__init__(priors, ss)
MultivariateNormalParameters(ss) ==
    LET r == update_r(ss)
        u == update_u(ss, r)
    IN [ss |-> ss, nu |-> update_nu(ss), r |-> r, u |-> u, S_chol |-> update_S_chol(ss, r, u)]

\* MultivariateNormal.create_params(x)
create_params(X) == MultivariateNormalParameters(SufficientStatistics(X))

\* a decrement whose rank-1 step for the point has the sign of increment
DecrementWrongSign(P, x) ==
    LET L1 == cholesky_update(P.S_chol, MeanTerm(P.r, P.u), 1)
        ss == ss_decrement(P.ss, x)
        r == update_r(ss)
        u == update_u(ss, r)
        L2 == cholesky_update(L1, PointTerm(x), 1)
        L3 == cholesky_update(L2, MeanTerm(r, u), -1)
    IN [ss |-> ss, nu |-> update_nu(ss), r |-> r, u |-> u, S_chol |-> L3]

\* MultivariateNormalParameters.decrement(x)
Decrement(P, x) ==
    LET L1 == cholesky_update(P.S_chol, MeanTerm(P.r, P.u), 1)
        ss == ss_decrement(P.ss, x)
        r == update_r(ss)
        u == update_u(ss, r)
        L2 == cholesky_update(L1, PointTerm(x), -1)
        L3 == cholesky_update(L2, MeanTerm(r, u), -1)
    IN [ss |-> ss, nu |-> update_nu(ss), r |-> r, u |-> u, S_chol |-> L3]

\* MultivariateNormalParameters.increment(x)
Increment(P, x) ==
    LET L1 == cholesky_update(P.S_chol, MeanTerm(P.r, P.u), 1)
        ss == ss_increment(P.ss, x)
        r == update_r(ss)
        u == update_u(ss, r)
        L2 == cholesky_update(L1, PointTerm(x), 1)
        L3 == cholesky_update(L2, MeanTerm(r, u), -1)
    IN [ss |-> ss, nu |-> update_nu(ss), r |-> r, u |-> u, S_chol |-> L3]

\* MultivariateNormalParameters.S: the matrix the factor represents (times Scale)
ScaleMatrix(P) == P.S_chol

(***************************************************************************)
(* Behaviours of one posterior object: it is created from a batch and then *)
(* incremented and decremented.  A point is only decremented while it is   *)
(* in the statistics (spec section 7: callers never decrement a point that *)
(* was not incremented into the same statistics).                          *)
(***************************************************************************)
EmptyFn == [x \in {} |-> 0]
NoCall == [outcome |-> "none"]

\* the kernel fields while no kernel exists
KernelIdle ==
    /\ strategy = "none"
    /\ data = EmptyFn
    /\ num_adaptation_iters = Inf
    /\ threshold = <<1, 100>>
    /\ dist = "near"
    /\ iter = 0
    /\ max_clusters_seen = 0
    /\ has_store = FALSE
    /\ cluster_params = EmptyFn
    /\ clusters_to_data = EmptyFn
    /\ data_to_clusters = EmptyFn
    /\ clustering = EmptyFn
    /\ cluster_probs = EmptyFn
    /\ call = NoCall

Batches == {<<x>> : x \in Points} \cup {<<x, y>> : x \in Points, y \in Points}
CountIn(X, x) == Cardinality({i \in DOMAIN X : X[i] = x})

PosteriorInit ==
    /\ mode = "posterior"
    /\ \E X \in Batches :
          /\ post = create_params(X)
          /\ members = [x \in Points |-> CountIn(X, x)]
    /\ hist = <<>>
    /\ KernelIdle

Remember(op, x) ==
    LET h == <<[op |-> op, x |-> x, before |-> post]>> \o hist
    IN SubSeq(h, 1, Min(2, Len(h)))

PosteriorIncrement ==
    /\ mode = "posterior"
    /\ post.ss.N < MaxCount
    /\ \E x \in Points :
          /\ post' = Increment(post, x)
          /\ members' = [members EXCEPT ![x] = @ + 1]
          /\ hist' = Remember("increment", x)
    /\ UNCHANGED <<mode, cfgvars, kvars>>

PosteriorDecrement ==
    /\ mode = "posterior"
    /\ \E x \in Points :
          /\ members[x] > 0
          /\ post' = Decrement(post, x)
          /\ members' = [members EXCEPT ![x] = @ - 1]
          /\ hist' = Remember("decrement", x)
    /\ UNCHANGED <<mode, cfgvars, kvars>>

PosteriorNext == PosteriorIncrement \/ PosteriorDecrement

SpecPosterior == PosteriorInit /\ [][PosteriorNext]_vars

\* the statistics of the points that are currently members
RECURSIVE MemberStats(_)
MemberStats(todo) ==
    IF todo = {} THEN SufficientStatistics(<<>>)
    ELSE LET x == CHOOSE y \in todo : TRUE
             rest == MemberStats(todo \ {x})
         IN [N |-> rest.N + members[x],
             X |-> VecAdd(rest.X, [i \in Idx |-> members[x] * x[i]]),
             S |-> MatAdd(rest.S, MatScale(members[x], outer_product(x, x)))]

\* C8: after any sequence of increment/decrement calls the matrix the maintained
\* factor represents equals the scale matrix recomputed directly from the current
\* sufficient statistics (which are those of the current members), with
\* nu = nu0 + N, r = r0 + N and u = (r0*u0 + X)/r.
C8_CrossCheck ==
    mode = "posterior" =>
        /\ post.ss = MemberStats(Points)
        /\ post.nu = priors.nu + post.ss.N
        /\ post.r = priors.r + post.ss.N
        /\ \A i \in Idx : post.u[i] * post.r = (priors.r * priors.u[i] + post.ss.X[i]) * Scale
        /\ post.S_chol.ok
        /\ ScaleMatrix(post) = update_S_chol(post.ss, post.r, post.u)

\* C8 witness: a posterior that went through a decrement right after an increment of
\* another point, and holds two points with a non-diagonal scale matrix
C8_Witness ==
    /\ mode = "posterior"
    /\ Len(hist) = 2
    /\ hist[1].op = "decrement"
    /\ hist[2].op = "increment"
    /\ hist[1].x # hist[2].x
    /\ post.ss.N = 2
    /\ post.S_chol.ok
    /\ post.S_chol.m[<<1, 2>>] # 0

(***************************************************************************)
(* split_merge_setup.py: inputs                                            *)
(***************************************************************************)
Strategies == {"Uniform", "Threshold", "CRP", "Cluster", "Point"}
Adaptive == {"Threshold", "CRP", "Cluster"}
TwoAnchor == {"Threshold", "CRP", "Cluster", "Point"}

DataSets == {[i \in 0 .. n - 1 |-> AllData[i + 1]] : n \in 1 .. Len(AllData)}
Budgets == (0 .. MaxBudget) \cup {Inf}
\* the default threshold 0.01 and a large one, 0.6
Thresholds == {<<1, 100>>, <<3, 5>>}

\* log-probability 0 in the units of the weights
ExpZero == 100
\* alpha = 100 * Beta(1, 9), in percent
Alphas == {10, 50}

(***************************************************************************)
(* The external observation model and partition prior.  Their answers are  *)
(* functions of their arguments; the model fixes two observation models,   *)
(* chosen when the kernel is built: "near" gives a high likelihood to      *)
(* points that are within distance 1 of each other (or of the mean of a    *)
(* cluster) and a low one to the others, "far" does the opposite.          *)
(***************************************************************************)
Dists == {"near", "far"}
SqDist(x, y) == (x[1] - y[1]) * (x[1] - y[1]) + (x[2] - y[2]) * (x[2] - y[2])
Times(k, x) == [i \in Idx |-> k * x[i]]
\* the weight of a log-probability that is NaN
NaNWeight == 0 - 1
HighWeight == 2 * ExpZero
LowWeight == 1

\* exp(partition_prior.log_tau_2(params.N) + dist.log_predictive_likelihood(x, params))
LikelihoodWeight(d, x, P) ==
    IF ~P.S_chol.ok THEN NaNWeight
    ELSE LET near == SqDist(Times(P.ss.N, x), P.ss.X) <= P.ss.N * P.ss.N
         IN IF (d = "near") = near THEN HighWeight ELSE LowWeight

\* exp(merge score) of two clusters with statistics si and sj: a positive score when
\* the observation model finds their means compatible, a strongly negative one otherwise
MergeWeight(d, si, sj) ==
    LET near == SqDist(Times(sj.N, si.X), Times(si.N, sj.X)) <= (si.N * sj.N) * (si.N * sj.N)
    IN IF (d = "near") = near THEN 10 * ExpZero ELSE LowWeight

\* log_pairwise_margs[j] - (log_seperate_margs[i] + log_seperate_margs[j]): under
\* "near" it falls with the distance and takes positive, zero and negative values,
\* under "far" it rises with the distance and is never positive
Compat(d, x, y) == IF d = "near" THEN 1 - SqDist(x, y) ELSE SqDist(x, y) - 10

np_unique(c) == {c[i] : i \in DOMAIN c}
np_where(c, l) == {i \in DOMAIN c : c[i] = l}
FirstIndex(c, l) == CHOOSE i \in np_where(c, l) : \A j \in np_where(c, l) : i <= j

\* The clusterings a caller passes: any labels in 0..MaxLabel, contiguous or not.  The
\* labels are numbered in the order in which they first appear, the one order in which
\* relabelling by first appearance and relabelling by sorted label agree.
Clusterings(n) ==
    {c \in [0 .. n - 1 -> 0 .. MaxLabel] :
        \A l1 \in np_unique(c), l2 \in np_unique(c) :
            l1 < l2 => FirstIndex(c, l1) < FirstIndex(c, l2)}

\* utils.relabel_clustering: the contiguous 0-based labelling with the same groups
relabel_clustering(c) ==
    [i \in DOMAIN c |-> Cardinality({l \in np_unique(c) : l < c[i]})]

\* the sequences that list the elements of a finite set once each, in any order
RECURSIVE Perms(_)
Perms(S) ==
    IF S = {} THEN {<<>>}
    ELSE UNION {{<<x>> \o p : p \in Perms(S \ {x})} : x \in S}

\* the elements of a set of integers in increasing order
RECURSIVE Sorted(_)
Sorted(S) ==
    IF S = {} THEN <<>>
    ELSE LET m == CHOOSE x \in S : \A y \in S : x <= y
         IN <<m>> \o Sorted(S \ {m})

Range(f) == {f[i] : i \in DOMAIN f}
RECURSIVE SumOver(_, _)
SumOver(f, S) ==
    IF S = {} THEN 0
    ELSE LET x == CHOOSE y \in S : TRUE IN f[x] + SumOver(f, S \ {x})

WithinBudget(i, budget) == IF budget = Inf THEN TRUE ELSE i <= budget

\* the kernel object as one record
Kernel ==
    [iter |-> iter, max_clusters_seen |-> max_clusters_seen, has_store |-> has_store,
     cluster_params |-> cluster_params, clusters_to_data |-> clusters_to_data,
     data_to_clusters |-> data_to_clusters, clustering |-> clustering,
     cluster_probs |-> cluster_probs]

(***************************************************************************)
(* _can_update and update                                                  *)
(***************************************************************************)
\* a _can_update that lets an equal cluster count through
CanUpdateAtEqual(k, c) ==
    /\ strategy \in Adaptive
    /\ Cardinality(np_unique(c)) >= k.max_clusters_seen
    /\ WithinBudget(k.iter, num_adaptation_iters)

\* _can_update(clustering) of the kernel class, k.iter being already incremented
\* (lines 77-78, 112-123, 209-220, 338-349, 388-389)
CanUpdate(k, c) ==
    /\ strategy \in Adaptive
    /\ Cardinality(np_unique(c)) > k.max_clusters_seen
    /\ WithinBudget(k.iter, num_adaptation_iters)

\* the posterior of the members of a cluster, incremented in index order from
\* dist.create_params()
RECURSIVE IncrementAll(_, _)
IncrementAll(P, idxs) ==
    IF idxs = <<>> THEN P
    ELSE IncrementAll(Increment(P, data[Head(idxs)]), Tail(idxs))

\* an update that keeps the per-anchor cache
UpdateStoreKeepCache(k, c) ==
    {[k EXCEPT
        !.has_store = TRUE,
        !.cluster_params =
            [l \in np_unique(c) |-> IncrementAll(create_params(<<>>), Sorted(np_where(c, l)))],
        !.clusters_to_data = [l \in np_unique(c) |-> np_where(c, l)],
        !.clustering = relabel_clustering(c)]}

\* ThresholdInformed/CRPInformed update(clustering) (lines 93-110, 190-207): the
\* store is keyed by the labels of the clustering as passed, self.clustering is relabelled
UpdateStore(k, c) ==
    {[k EXCEPT
        !.has_store = TRUE,
        !.cluster_params =
            [l \in np_unique(c) |-> IncrementAll(create_params(<<>>), Sorted(np_where(c, l)))],
        !.clusters_to_data = [l \in np_unique(c) |-> np_where(c, l)],
        !.data_to_clusters = EmptyFn,
        !.clustering = relabel_clustering(c)]}

\* a row of cluster_probs in which the stay entry is not tempered by 1/(K-1)
ClusterRowUntempered(w, ci, clusters) ==
    LET K == Cardinality(clusters)
        others == clusters \ {ci}
    IN [cj \in clusters |->
            IF cj # ci THEN w[{ci, cj}]
            ELSE IF K = 1 THEN ExpZero
            ELSE SumOver([x \in others |-> w[{ci, x}]], others)]

\* One row of cluster_probs (lines 312-336), up to the normalising constant of
\* exp_normalize: w[{ci, cj}] is exp(merge score); the row is multiplied by K - 1 so
\* that the stay entry exp(logsumexp(row) - log(K - 1)) is an integer.
ClusterRow(w, ci, clusters) ==
    LET K == Cardinality(clusters)
        others == clusters \ {ci}
    IN [cj \in clusters |->
            IF cj # ci THEN (K - 1) * w[{ci, cj}]
            ELSE IF K = 1 THEN ExpZero
            ELSE SumOver([x \in others |-> w[{ci, x}]], others)]

\* ClusterInformed update(clustering) (lines 282-336): everything is keyed by the
\* relabelled clustering
UpdateClusterProbs(k, c) ==
    LET rc == relabel_clustering(c)
        clusters == np_unique(rc)
        stats == [l \in clusters |->
                     SufficientStatistics([n \in 1 .. Cardinality(np_where(rc, l)) |->
                                              data[Sorted(np_where(rc, l))[n]]])]
        w == [pr \in {{ci, cj} : ci \in clusters, cj \in clusters} |->
                 LET ci == CHOOSE x \in pr : TRUE
                     cj == CHOOSE x \in pr : pr = {ci, x}
                 IN MergeWeight(dist, stats[ci], stats[cj])]
    IN {[k EXCEPT
            !.has_store = TRUE,
            !.cluster_probs = [ci \in clusters |-> ClusterRow(w, ci, clusters)],
            !.clusters_to_data = [l \in clusters |-> np_where(rc, l)],
            !.data_to_clusters = [i \in DOMAIN rc |-> rc[i]]]}

\* update(clustering) of the kernel class
Update(k, c) ==
    IF strategy = "Cluster" THEN UpdateClusterProbs(k, c) ELSE UpdateStore(k, c)

(***************************************************************************)
(* _set_data_to_clusters: scoring the clusters for one anchor              *)
(***************************************************************************)
\* A cache entry is [val, built]: val is what the code stores, built is a ghost
\* field, the value of max_clusters_seen (which changes exactly when update runs)
\* at the time the entry was computed.
Entry(k, val) == [val |-> val, built |-> k.max_clusters_seen]

\* the clusters log_normalize and the threshold comparison retain (lines 174-180)
Retained(w, keys) ==
    IF \E c \in keys : w[c] = NaNWeight THEN {}
    ELSE LET tot == SumOver(w, keys)
         IN IF tot = 0 THEN {}
            ELSE {c \in keys : w[c] * threshold[2] >= threshold[1] * tot}

\* the entry _set_data_to_clusters adds to the cache for anchor a
WithEntry(k, a, val) ==
    [k EXCEPT !.data_to_clusters =
        [i \in DOMAIN @ \cup {a} |-> IF i = a THEN Entry(k, val) ELSE @[i]]]

\* ThresholdInformed._set_data_to_clusters(data_idx) (lines 150-180).  The loop runs
\* over the keys of cluster_params in increasing order; log_p has len(cluster_params)
\* entries, so a key >= that length raises IndexError (failed) after the smaller keys
\* were handled.  The key equal to the anchor's relabelled cluster is decremented
\* before and incremented after its score is taken.
ThresholdScore(k, a) ==
    LET keys == DOMAIN k.cluster_params
        cluster == k.clustering[a]
        x == data[a]
        left == [c \in keys |->
                    IF c = cluster THEN Decrement(k.cluster_params[c], x)
                    ELSE k.cluster_params[c]]
        w == [c \in keys |->
                 IF left[c].ss.N = 0 THEN 0 ELSE LikelihoodWeight(dist, x, left[c])]
        back == [c \in keys |-> IF c = cluster THEN Increment(left[c], x) ELSE left[c]]
        k1 == [k EXCEPT !.cluster_params = back]
    IN IF \E c \in keys : c >= Cardinality(keys)
       THEN [k |-> k1, failed |-> TRUE]
       ELSE [k |-> WithEntry(k1, a, Retained(w, keys)), failed |-> FALSE]

\* a CRP row that lets the anchor stay in a cluster of size 1
CRPRowNoSingletonCheck(k, a) ==
    LET keys == DOMAIN k.cluster_params
        K == Cardinality(keys)
        cluster == k.clustering[a]
        others == keys \ {cluster}
        w == [c \in others |-> LikelihoodWeight(dist, data[a], k.cluster_params[c])]
    IN [c \in keys |->
            IF c # cluster THEN (IF K > 1 THEN K - 1 ELSE 1) * w[c]
            ELSE SumOver(w, others) + ExpZero]

\* The probabilities CRPInformed._set_data_to_clusters stores for an anchor (lines
\* 246-270), up to the normalising constant of exp_normalize and multiplied by K - 1
\* when K > 1.  log_p starts as zeros, so the anchor's own entry still counts as
\* exp(0) in log_sum_exp(log_p).
CRPRow(k, a) ==
    LET keys == DOMAIN k.cluster_params
        K == Cardinality(keys)
        cluster == k.clustering[a]
        others == keys \ {cluster}
        w == [c \in others |-> LikelihoodWeight(dist, data[a], k.cluster_params[c])]
    IN [c \in keys |->
            IF c # cluster THEN (IF K > 1 THEN K - 1 ELSE 1) * w[c]
            ELSE IF k.cluster_params[cluster].ss.N = 1 THEN 0
            ELSE SumOver(w, others) + ExpZero]

\* CRPInformed._set_data_to_clusters(data_idx) (lines 241-270): log_p[c] raises
\* IndexError for a key >= len(cluster_params), cluster_params[cluster] raises
\* KeyError when the relabelled cluster is no key
CRPScore(k, a) ==
    LET keys == DOMAIN k.cluster_params
        cluster == k.clustering[a]
    IN IF (\E c \in keys \ {cluster} : c >= Cardinality(keys)) \/ cluster \notin keys
       THEN [k |-> k, failed |-> TRUE]
       ELSE [k |-> WithEntry(k, a, CRPRow(k, a)), failed |-> FALSE]

\* PointInformed._set_data_to_clusters(i) (lines 438-447): the row of pairwise
\* log-compatibilities of i
PointScore(k, a) ==
    WithEntry(k, a, [j \in DOMAIN data |-> Compat(dist, data[a], data[j])])

(***************************************************************************)
(* np.percentile and the masking of PointInformed._propose_anchors         *)
(***************************************************************************)
\* the values of a vector in increasing order, with repetitions
RECURSIVE SortValues(_, _)
SortValues(v, idxs) ==
    IF idxs = {} THEN <<>>
    ELSE LET m == CHOOSE i \in idxs : \A j \in idxs : v[i] <= v[j]
         IN <<v[m]>> \o SortValues(v, idxs \ {m})

\* 100 * np.percentile(v, q), by linear interpolation between the order statistics
Percentile100(v, q) ==
    LET sv == SortValues(v, DOMAIN v)
        n == Len(sv)
        pos == q * (n - 1)
        lo == pos \div 100
        frac == pos % 100
        hi == Min(lo + 1, n - 1)
    IN sv[lo + 1] * (100 - frac) + sv[hi + 1] * frac

\* an entry of the masked vector: -inf, or a finite value (times 100)
NegInf == [neg_inf |-> TRUE, v |-> 0]
Finite(v) == [neg_inf |-> FALSE, v |-> v]
Gt(e, x) == ~e.neg_inf /\ e.v > x
Le(e, x) == e.neg_inf \/ e.v <= x

\* The pool anchor_2 is drawn from (lines 400-434).  The two masked assignments run
\* one after the other on the same array, the second on the result of the first.
PointPool(log_p, anchor_1, u_low, alpha) ==
    LET e == [j \in DOMAIN log_p |-> Finite(100 * log_p[j])]
        x == IF u_low THEN Percentile100(log_p, alpha) ELSE Percentile100(log_p, 100 - alpha)
        s1 == [j \in DOMAIN e |->
                  IF Gt(e[j], x) THEN (IF u_low THEN NegInf ELSE Finite(0)) ELSE e[j]]
        s2 == [j \in DOMAIN e |->
                  IF Le(s1[j], x) THEN (IF u_low THEN Finite(0) ELSE NegInf) ELSE s1[j]]
        s3 == [s2 EXCEPT ![anchor_1] = NegInf]
    IN IF \A j \in DOMAIN s3 : s3[j].neg_inf
       THEN DOMAIN log_p \ {anchor_1}
       ELSE {j \in DOMAIN s3 : ~s3[j].neg_inf}

(***************************************************************************)
(* _propose_anchors                                                        *)
(***************************************************************************)
\* What _propose_anchors leaves behind: the kernel, how it ended ("ok", "raised" for
\* the explicit exception on num_anchors, "error" for any other exception), the
\* anchors, and ghost fields on the draws it made.
Proposal(k, status, anchors, anchor_1, scored, before, pool, u_low, alpha) ==
    [k |-> k, status |-> status, anchors |-> anchors, anchor_1 |-> anchor_1,
     scored |-> scored, before |-> before, pool |-> pool, u_low |-> u_low, alpha |-> alpha]

Raised(k) == Proposal(k, "raised", <<>>, 0 - 1, FALSE, EmptyFn, {}, FALSE, 0)
Failed(k, anchor_1, scored, before) ==
    Proposal(k, "error", <<>>, anchor_1, scored, before, {}, FALSE, 0)
Proposed(k, anchors, anchor_1, scored, before) ==
    Proposal(k, "ok", anchors, anchor_1, scored, before, {}, FALSE, 0)

NumDataPoints == Cardinality(DOMAIN data)
DataIdx == DOMAIN data

\* np.random.choice(np.arange(num_data_points), replace=False, size=m), which raises
\* ValueError when m exceeds the population
ChoiceNoReplace(m) ==
    UNION {Perms(A) : A \in {B \in SUBSET DataIdx : Cardinality(B) = m}}

\* UniformSplitMergeSetupKernel._propose_anchors (lines 80-81)
ProposeUniform(k, num_anchors) ==
    {Proposed(k, a, 0 - 1, FALSE, EmptyFn) : a \in ChoiceNoReplace(num_anchors)}

\* the fallback to a uniform random pair (lines 135, 144, 366)
FallbackPair(k, anchor_1, scored, before) ==
    IF NumDataPoints < 2 THEN {Failed(k, anchor_1, scored, before)}
    ELSE {Proposed(k, a, anchor_1, scored, before) : a \in ChoiceNoReplace(2)}

\* anchor_2 uniform among the members of a cluster other than anchor_1, or the
\* fallback when there is none (lines 139-148)
SecondFromCluster(k, cluster, anchor_1, scored, before) ==
    LET cluster_members == k.clusters_to_data[cluster] \ {anchor_1}
    IN IF cluster_members = {} THEN FallbackPair(k, anchor_1, scored, before)
       ELSE {Proposed(k, <<anchor_1, a2>>, anchor_1, scored, before) : a2 \in cluster_members}

\* ThresholdInformedSplitMergeSetupKernel._propose_anchors (lines 125-148)
ProposeThreshold(k, num_anchors) ==
    IF num_anchors # 2 THEN {Raised(k)}
    ELSE UNION {
        IF ~k.has_store THEN {Failed(k, a1, FALSE, EmptyFn)}   \* AttributeError
        ELSE LET cached == a1 \in DOMAIN k.data_to_clusters
                 scores == {IF cached THEN [k |-> k, failed |-> FALSE]
                            ELSE ThresholdScore(k, a1)}
                 before == IF cached THEN EmptyFn ELSE k.cluster_params
             IN UNION {
                 IF sc.failed THEN {Failed(sc.k, a1, TRUE, before)}         \* IndexError
                 ELSE LET retained == sc.k.data_to_clusters[a1].val
                      IN IF retained = {} THEN FallbackPair(sc.k, a1, ~cached, before)
                         ELSE UNION {SecondFromCluster(sc.k, cluster, a1, ~cached, before)
                                     : cluster \in retained}
                 : sc \in scores}
        : a1 \in DataIdx}

\* CRPInformedSplitMergeSetupKernel._propose_anchors (lines 222-239); the keys and
\* values of the stored dict are lists in matching order
ProposeCRP(k, num_anchors) ==
    IF num_anchors # 2 THEN {Raised(k)}
    ELSE UNION {
        IF ~k.has_store THEN {Failed(k, a1, FALSE, EmptyFn)}   \* AttributeError
        ELSE LET cached == a1 \in DOMAIN k.data_to_clusters
                 scores == {IF cached THEN [k |-> k, failed |-> FALSE] ELSE CRPScore(k, a1)}
             IN UNION {
                 IF sc.failed THEN {Failed(sc.k, a1, TRUE, EmptyFn)}   \* IndexError, KeyError
                 ELSE LET p == sc.k.data_to_clusters[a1].val
                          support == {c \in DOMAIN p : p[c] > 0}
                      IN IF support = {}
                         THEN {Failed(sc.k, a1, ~cached, EmptyFn)}     \* p is NaN
                         ELSE UNION {
                             LET cluster_members == sc.k.clusters_to_data[cluster] \ {a1}
                             IN IF cluster_members = {}
                                THEN {Failed(sc.k, a1, ~cached, EmptyFn)}   \* choice of []
                                ELSE {Proposed(sc.k, <<a1, a2>>, a1, ~cached, EmptyFn)
                                      : a2 \in cluster_members}
                             : cluster \in support}
                 : sc \in scores}
        : a1 \in DataIdx}

\* ClusterInformedSplitMergeSetupKernel._propose_anchors (lines 351-371)
ProposeCluster(k, num_anchors) ==
    IF num_anchors # 2 THEN {Raised(k)}
    ELSE UNION {
        IF ~k.has_store THEN {Failed(k, a1, FALSE, EmptyFn)}   \* AttributeError
        ELSE LET cluster_1 == k.data_to_clusters[a1]
                 row == k.cluster_probs[cluster_1]
             IN UNION {SecondFromCluster(k, cluster_2, a1, FALSE, EmptyFn)
                       : cluster_2 \in {c \in DOMAIN row : row[c] > 0}}
        : a1 \in DataIdx}

\* PointInformedSplitMergeSetupKernel._propose_anchors (lines 391-436)
ProposePoint(k, num_anchors) ==
    IF num_anchors # 2 THEN {Raised(k)}
    ELSE UNION {
        LET cached == a1 \in DOMAIN k.data_to_clusters
            k1 == IF cached THEN k ELSE PointScore(k, a1)
            log_p_anchor == k1.data_to_clusters[a1].val
        IN UNION {
            LET idx == PointPool(log_p_anchor, a1, u_low, alpha)
            IN {Proposal(k1, "ok", <<a1, a2>>, a1, ~cached, EmptyFn, idx, u_low, alpha)
                : a2 \in idx}
            : u_low \in BOOLEAN, alpha \in Alphas}
        : a1 \in DataIdx}

\* _propose_anchors(num_anchors) of the kernel class
ProposeAnchors(k, num_anchors) ==
    CASE strategy = "Uniform" -> ProposeUniform(k, num_anchors)
      [] strategy = "Threshold" -> ProposeThreshold(k, num_anchors)
      [] strategy = "CRP" -> ProposeCRP(k, num_anchors)
      [] strategy = "Cluster" -> ProposeCluster(k, num_anchors)
      [] strategy = "Point" -> ProposePoint(k, num_anchors)

(***************************************************************************)
(* setup_split_merge                                                       *)
(***************************************************************************)
\* an order in which the anchors are not removed from sigma
BuildOrderKeepAnchors(c, anchors) ==
    LET anchor_clusters == {c[anchors[i]] : i \in DOMAIN anchors}
        sigma == UNION {np_where(c, l) : l \in anchor_clusters}
    IN {anchors \o p : p \in Perms(sigma)}

\* Lines 46-60: the members of the anchors' clusters in the clustering of this call,
\* without the anchors, shuffled, after the anchors.  sigma.remove(x) raises
\* ValueError for an anchor that was already removed: no order then.
BuildOrder(c, anchors) ==
    LET anchor_clusters == {c[anchors[i]] : i \in DOMAIN anchors}
        sigma == UNION {np_where(c, l) : l \in anchor_clusters}
    IN IF Cardinality(Range(anchors)) # Len(anchors) THEN {}
       ELSE {anchors \o p : p \in Perms(sigma \ Range(anchors))}

CallRecord(outcome, c, num_anchors, updated, pr, order) ==
    [outcome |-> outcome, clustering |-> c, num_anchors |-> num_anchors,
     updated |-> updated, anchors |-> pr.anchors, order |-> order,
     anchor_1 |-> pr.anchor_1, scored |-> pr.scored, before |-> pr.before,
     pool |-> pr.pool, u_low |-> pr.u_low, alpha |-> pr.alpha]

\* a driver that tests the requested count before clamping it to the data size
SetupSplitMergeNoClamp(k0, c, num) ==
    LET k1 == [k0 EXCEPT !.iter = @ + 1]
        updated == CanUpdate(k1, c)
        after == IF updated
                 THEN Update([k1 EXCEPT !.max_clusters_seen = Cardinality(np_unique(c))], c)
                 ELSE {k1}
    IN UNION {UNION {
           IF pr.status = "raised" THEN {[k |-> pr.k, call |-> CallRecord("raised", c, num, updated, pr, <<>>)]}
           ELSE IF pr.status = "error" \/ BuildOrder(c, pr.anchors) = {}
           THEN {[k |-> pr.k, call |-> CallRecord("error", c, num, updated, pr, <<>>)]}
           ELSE {[k |-> pr.k, call |-> CallRecord("returned", c, num, updated, pr, order)]
                 : order \in BuildOrder(c, pr.anchors)}
           : pr \in IF strategy \in TwoAnchor /\ num # 2 THEN {Raised(k2)}
                    ELSE ProposeAnchors(k2, Min(num, Cardinality(DOMAIN c)))}
       : k2 \in after}

\* SplitMergeSetupKernel.setup_split_merge(clustering, num_anchors) (lines 32-60):
\* every way the call can end, as [k: the kernel afterwards, call: what it returned]
SetupSplitMerge(k0, c, num) ==
    LET k1 == [k0 EXCEPT !.iter = @ + 1]
        updated == CanUpdate(k1, c)
        after == IF updated
                 THEN Update([k1 EXCEPT !.max_clusters_seen = Cardinality(np_unique(c))], c)
                 ELSE {k1}
        num_anchors == Min(num, Cardinality(DOMAIN c))
    IN UNION {UNION {
           IF pr.status = "raised" THEN {[k |-> pr.k, call |-> CallRecord("raised", c, num, updated, pr, <<>>)]}
           ELSE IF pr.status = "error" \/ BuildOrder(c, pr.anchors) = {}
           THEN {[k |-> pr.k, call |-> CallRecord("error", c, num, updated, pr, <<>>)]}
           ELSE {[k |-> pr.k, call |-> CallRecord("returned", c, num, updated, pr, order)]
                 : order \in BuildOrder(c, pr.anchors)}
           : pr \in ProposeAnchors(k2, num_anchors)}
       : k2 \in after}

(***************************************************************************)
(* Behaviours of one kernel: it is constructed and then setup_split_merge  *)
(* is called, at most MaxIter times, with any clustering and anchor count. *)
(***************************************************************************)
PosteriorIdle ==
    /\ post = EmptyFn
    /\ members = EmptyFn
    /\ hist = <<>>

KernelInit ==
    /\ mode = "kernel"
    /\ PosteriorIdle
    /\ strategy \in Strategies
    /\ data \in DataSets
    /\ num_adaptation_iters \in (IF strategy \in Adaptive THEN Budgets ELSE {Inf})
    /\ threshold \in (IF strategy = "Threshold" THEN Thresholds ELSE {<<1, 100>>})
    /\ dist \in (IF strategy = "Uniform" THEN {"near"} ELSE Dists)
    /\ iter = 0
    /\ max_clusters_seen = 0
    /\ has_store = FALSE
    /\ cluster_params = EmptyFn
    /\ clusters_to_data = EmptyFn
    /\ data_to_clusters = EmptyFn
    /\ clustering = EmptyFn
    /\ cluster_probs = EmptyFn
    /\ call = NoCall

KernelCall ==
    /\ mode = "kernel"
    /\ iter < MaxIter
    /\ \E c \in Clusterings(NumDataPoints), num \in 1 .. MaxAnchors :
          \E r \in SetupSplitMerge(Kernel, c, num) :
              /\ iter' = r.k.iter
              /\ max_clusters_seen' = r.k.max_clusters_seen
              /\ has_store' = r.k.has_store
              /\ cluster_params' = r.k.cluster_params
              /\ clusters_to_data' = r.k.clusters_to_data
              /\ data_to_clusters' = r.k.data_to_clusters
              /\ clustering' = r.k.clustering
              /\ cluster_probs' = r.k.cluster_probs
              /\ call' = r.call
    /\ UNCHANGED <<mode, pvars, cfgvars>>

KernelNext == KernelCall

SpecKernel == KernelInit /\ [][KernelNext]_vars

(***************************************************************************)
(* Properties of the posterior behaviours (continued).                     *)
(***************************************************************************)
\* decrement(x) right after increment(x) gives back the posterior as it was: the
\* statistics N, X, S, the derived nu, r, u and the scale matrix
RoundTrip ==
    (mode = "posterior" /\ Len(hist) = 2 /\ hist[1].op = "decrement"
        /\ hist[2].op = "increment" /\ hist[1].x = hist[2].x)
    => post = hist[2].before

(***************************************************************************)
(* Properties of the kernel behaviours.                                    *)
(***************************************************************************)
Called == mode = "kernel" /\ call.outcome # "none"
Returned == mode = "kernel" /\ call.outcome = "returned"
NumClusters(c) == Cardinality(np_unique(c))
Clamped == Min(call.num_anchors, Cardinality(DOMAIN call.clustering))

\* C1: whenever setup_split_merge returns, it returns min(num_anchors, |data|)
\* pairwise distinct anchors, and an order without duplicates that starts with the
\* anchors in the same sequence and whose remaining elements are exactly the
\* non-anchor indices whose label, in the clustering passed to this call, is the
\* label of some anchor.
C1_AnchorValidity ==
    Returned =>
        LET a == call.anchors
            o == call.order
            c == call.clustering
            A == Range(a)
        IN /\ Len(a) = Min(call.num_anchors, NumDataPoints)
           /\ Cardinality(A) = Len(a)
           /\ Cardinality(Range(o)) = Len(o)
           /\ Len(o) >= Len(a)
           /\ SubSeq(o, 1, Len(a)) = a
           /\ {o[i] : i \in Len(a) + 1 .. Len(o)}
                = {i \in DOMAIN c : i \notin A /\ \E x \in A : c[i] = c[x]}

\* C1 witness: an adaptive kernel returns, from a store built for an earlier
\* clustering, two anchors that lie in different clusters of the clustering of this
\* call, and an order that goes on after the anchors
C1_Witness ==
    /\ Returned
    /\ strategy \in Adaptive
    /\ iter = 2
    /\ ~call.updated
    /\ Len(call.anchors) = 2
    /\ call.clustering[call.anchors[1]] # call.clustering[call.anchors[2]]
    /\ Len(call.order) = 3

\* C2 (as claimed): every call with num_anchors = 2 on a dataset of at least two
\* points returns a result, whatever the strategy, the adaptation budget and the
\* earlier calls.
C2_AlwaysReturns ==
    (Called /\ call.num_anchors = 2 /\ NumDataPoints >= 2) => call.outcome = "returned"

\* the part of the store that update builds, without the Cholesky factors
StoreCore ==
    <<has_store, clusters_to_data, clustering, cluster_probs,
      [c \in DOMAIN cluster_params |-> cluster_params[c].ss]>>

C3_Step ==
    (mode = "kernel" /\ iter' = iter + 1) =>
        LET n == NumClusters(call'.clustering)
            due == n > max_clusters_seen /\ WithinBudget(iter', num_adaptation_iters)
        IN /\ strategy \in Adaptive => (call'.updated <=> due)
           /\ strategy \notin Adaptive => ~call'.updated
           /\ call'.updated =>
                 /\ max_clusters_seen' = n
                 /\ has_store'
                 /\ {clusters_to_data'[l] : l \in DOMAIN clusters_to_data'}
                      = {np_where(call'.clustering, l) : l \in np_unique(call'.clustering)}
           /\ ~call'.updated =>
                 /\ max_clusters_seen' = max_clusters_seen
                 /\ StoreCore' = StoreCore
                 /\ \A a \in DOMAIN data_to_clusters :
                       a \in DOMAIN data_to_clusters' /\ data_to_clusters'[a] = data_to_clusters[a]
           /\ max_clusters_seen' >= max_clusters_seen
           /\ iter' > num_adaptation_iters /\ num_adaptation_iters # Inf => ~call'.updated

C4_RaisesUnlessTwoRequested ==
    Called =>
        /\ (strategy \in TwoAnchor /\ call.num_anchors # 2) => call.outcome = "raised"
        /\ (strategy = "Uniform" /\ call.num_anchors <= NumDataPoints)
              => call.outcome = "returned"

\* C4 (amended): a 2-anchor strategy raises the explicit error exactly when
\* min(num_anchors, len(clustering)) is not 2, and returns nothing then; Uniform
\* returns min(num_anchors, len(clustering)) anchors for every num_anchors.
C4_RaisesIffClampedNotTwo ==
    Called =>
        /\ strategy \in TwoAnchor =>
              /\ (call.outcome = "raised") <=> (Clamped # 2)
              /\ call.outcome = "raised" => (call.anchors = <<>> /\ call.order = <<>>)
        /\ strategy = "Uniform" =>
              (call.outcome = "returned" /\ Len(call.anchors) = Clamped)

\* C4 witness: a 2-anchor kernel on two data points is asked for three anchors and
\* returns a pair
C4_Witness ==
    /\ Returned
    /\ strategy \in TwoAnchor
    /\ call.num_anchors = 3
    /\ NumDataPoints = 2
    /\ Len(call.anchors) = 2

\* C5 (as claimed): the pool anchor_2 of Point-Informed is drawn from is the set of
\* points other than anchor_1 with compatibility <= the alpha-th percentile when
\* u <= 0.5, and >= the (100 - alpha)-th percentile when u > 0.5; only when that set
\* is empty is it the set of all other points.
C5_PercentilePool ==
    (Returned /\ strategy = "Point") =>
        LET a1 == call.anchor_1
            v == data_to_clusters[a1].val
            others == DataIdx \ {a1}
            x == IF call.u_low THEN Percentile100(v, call.alpha)
                 ELSE Percentile100(v, 100 - call.alpha)
            restricted == IF call.u_low THEN {j \in others : 100 * v[j] <= x}
                          ELSE {j \in others : 100 * v[j] >= x}
        IN call.pool = (IF restricted = {} THEN others ELSE restricted)

\* C6 (as claimed): with two clusters whose merge score is strongly negative, the row
\* of cluster 0 gives strictly more mass to staying in cluster 0 than to cluster 1.
C6_StayDominates ==
    (mode = "kernel" /\ strategy = "Cluster" /\ has_store
        /\ DOMAIN cluster_probs = {0, 1} /\ cluster_probs[0][1] = LowWeight)
    => cluster_probs[0][0] > cluster_probs[0][1]

\* C6 (amended): every row of cluster_probs gives the stay entry exactly 1/K of its
\* mass, K being the number of clusters, whatever the merge scores are: with two
\* clusters, staying and moving to the other cluster are equally likely.
C6_StayMassIsOneOverK ==
    (mode = "kernel" /\ strategy = "Cluster" /\ has_store) =>
        \A ci \in DOMAIN cluster_probs :
            LET row == cluster_probs[ci]
                K == Cardinality(DOMAIN cluster_probs)
            IN /\ K * row[ci] = SumOver(row, DOMAIN row)
               /\ K = 2 => \A cj \in DOMAIN row : row[cj] = row[ci]

\* C6 witness: two clusters with a strongly negative merge score, anchor_1 in cluster 0
\* and anchor_2 drawn from cluster 1
C6_Witness ==
    /\ Returned
    /\ strategy = "Cluster"
    /\ call.updated
    /\ DOMAIN cluster_probs = {0, 1}
    /\ cluster_probs[0][1] = LowWeight
    /\ data_to_clusters[call.anchors[1]] = 0
    /\ data_to_clusters[call.anchors[2]] = 1
    /\ call.anchors[1] = call.anchor_1

\* C7 (as claimed): whenever anchor_1 of a CRP-Informed call is alone in its cluster
\* in the clustering passed to the call, the distribution used for it gives
\* probability zero to the cluster that holds anchor_1.
C7_SingletonNeverStays ==
    (Returned /\ strategy = "CRP"
        /\ np_where(call.clustering, call.clustering[call.anchor_1]) = {call.anchor_1})
    => data_to_clusters[call.anchor_1].val[clustering[call.anchor_1]] = 0

\* C7 (amended): whenever an anchor is alone in its cluster in the clustering the
\* store was built from (that of the last call that updated), the distribution
\* cached for it gives probability zero to its own cluster, and anchor_2 is never
\* drawn for it from that cluster.
C7_StoredSingletonNeverStays ==
    (mode = "kernel" /\ strategy = "CRP") =>
        /\ \A a \in DOMAIN data_to_clusters :
              clusters_to_data[clustering[a]] = {a}
                 => data_to_clusters[a].val[clustering[a]] = 0
        /\ (call.outcome = "returned"
               /\ clusters_to_data[clustering[call.anchor_1]] = {call.anchor_1})
              => /\ call.anchors[1] = call.anchor_1
                 /\ data_to_clusters[call.anchor_1].val[clustering[call.anchors[2]]] > 0

\* C7 witness: a CRP-Informed call returned for an anchor that is alone in its
\* cluster of the store, in a store of three clusters
C7_Witness ==
    /\ Returned
    /\ strategy = "CRP"
    /\ Cardinality(DOMAIN cluster_params) = 3
    /\ clusters_to_data[clustering[call.anchor_1]] = {call.anchor_1}
    /\ call.scored

\* C9 (as claimed, the part on the kernel): the decrement and increment that
\* Threshold-Informed wraps around scoring leave every posterior of the store as it
\* was before the scoring.
C9_ScoringRestoresStore ==
    (Called /\ strategy = "Threshold" /\ call.scored) => cluster_params = call.before

C10_Step ==
    (mode = "kernel" /\ strategy \in {"Threshold", "CRP"} /\ iter' = iter + 1) =>
        /\ call'.updated =>
              /\ max_clusters_seen' > max_clusters_seen
              /\ max_clusters_seen' = NumClusters(call'.clustering)
              /\ DOMAIN cluster_params' = np_unique(call'.clustering)
              /\ clusters_to_data' =
                    [l \in np_unique(call'.clustering) |-> np_where(call'.clustering, l)]
              /\ clustering' = relabel_clustering(call'.clustering)
              /\ DOMAIN data_to_clusters' \subseteq {call'.anchor_1}
        /\ \A a \in DOMAIN data_to_clusters' :
              data_to_clusters'[a].built = max_clusters_seen'

\* C10: an update of Threshold- or CRP-Informed replaces the whole store (its keys
\* and members are those of the clustering of the call) and leaves no cached score
\* but the one the same call computes afterwards; after every call each cached score
\* was computed after the most recent update; and each update happens at a cluster
\* count strictly above the recorded maximum, that of the update before it.
C10_StoreAndCacheRebuilt == [][C10_Step]_vars

\* C10 witness: a second update, at a higher cluster count, after which the call
\* scored its anchor afresh and returned
C10_Witness ==
    /\ Returned
    /\ strategy \in {"Threshold", "CRP"}
    /\ iter = 2
    /\ call.updated
    /\ call.scored
    /\ max_clusters_seen = 2
    /\ DOMAIN data_to_clusters = {call.anchor_1}

====
